---- MODULE Spec2Model ----
(***************************************************************************)
(* med-point-portal: role-based authorization, session manager and         *)
(* appointment-status workflow, modelled from the React/Supabase sources.  *)
(*                                                                         *)
(* The specifications of the module:                                        *)
(*   SpecAppt   - the appointments table and the two views that write an   *)
(*                appointment status (AppointmentPage, DoctorDashboard),   *)
(*                one browser client per signed-in user;                   *)
(*   SpecAuth   - the AuthProvider of one browser, the identity provider,  *)
(*                the route tables with their guards and the admin views;  *)
(*   SpecSignUp - AuthProvider.signUp against the identity provider and    *)
(*                the profiles / doctors tables;                           *)
(*   SpecAdmin  - doctor verification: the admin views that write the      *)
(*                verification flags and the views that list doctors;      *)
(*   SpecProfile - AuthProvider.updateProfile of a signed-in user and the  *)
(*                re-fetch of the cached profile;                          *)
(*   SpecSettings - the admin's user management: user creation and role    *)
(*                changes;                                                 *)
(*   SpecWrites - the write handlers of the appointment dialog and of the  *)
(*                admin views when the store answers with an error;        *)
(*   SpecForms  - the registration, password and admin-email forms and     *)
(*                their validation;                                        *)
(*   SpecFetch  - the fetches of AppointmentPage, MedicalRecords and       *)
(*                DoctorDashboard as requests in flight.                   *)
(* Each specification moves its own variables and leaves the others at     *)
(* their initial values.                                                   *)
(***************************************************************************)
EXTENDS Integers, Sequences, FiniteSets, TLC

\* --------------------------------------------------------------- constants
Null == "null"
Roles == {"patient", "doctor", "admin"}
Status == {"scheduled", "completed", "cancelled", "missed"}
UserIds == {"u1", "u2", "u3"}
Appts == {"a1"}

NoAppt == [status |-> "none", patient_id |-> "", doctor_id |-> ""]
NoSelection == [id |-> "", status |-> "none"]
NoWrite == [kind |-> "none", id |-> "", from |-> "none", to |-> "none",
            by |-> ""]
EmptyList == [a \in Appts |-> "none"]

VARIABLES
  \* ---- remote store (SpecAppt; profileRole is read by SpecAuth)
  appointmentRows,       \* appointments table: id -> row, NoAppt when absent
  profileRole,           \* profiles.role of every user
  doctorRows,            \* ids present in the doctors table
  \* ---- per-client session (SpecAppt)
  clientRole,            \* useAuth().userRole of the client: Null until fetched
  \* ---- per-client view state (SpecAppt)
  view,                  \* which page the client has mounted
  loading,               \* loading flag of the mounted page
  appointments,          \* AppointmentPage.appointments (id -> listed status)
  selectedAppointment,   \* AppointmentPage.selectedAppointment
  openViewAppointment,   \* AppointmentPage.openViewAppointment
  doctorId,              \* DoctorDashboard.doctorId
  todayAppointments,     \* DoctorDashboard.todayAppointments
  upcomingAppointments,  \* DoctorDashboard.upcomingAppointments
  \* ---- history (SpecAppt)
  lastWrite,             \* the write the store applied in the step just taken
  lastToast,             \* the titles passed to toast() in the step just taken
  \* ---- identity provider (SpecAuth)
  idpSession,            \* the provider's current session: a user id or Null
  sessionLookup,         \* getSession() of the mount effect: pending or done
  profileFetches,        \* user ids whose fetchProfile call is in flight
  \* ---- AuthProvider state (SpecAuth)
  session,               \* useState session (identified by its user id)
  user,                  \* useState user
  userRole,              \* useState userRole
  profile,               \* useState profile
  isLoading,             \* useState isLoading
  \* ---- calls of the AuthProvider API (SpecAuth, SpecProfile)
  signInPending,         \* the user a suspended signIn call is for, or Null
  lastCall,              \* the last signIn / signOut / updateProfile finished
  \* ---- columns of the profiles rows (SpecProfile)
  profileName,           \* profiles.first_name of every user
  profileEmail,          \* profiles.email of every user
  \* ---- router (SpecAuth)
  path,                  \* current location
  routeTable,            \* which of the two App route tables is mounted
  \* ---- signUp (SpecSignUp)
  pc,                    \* the await signUp is suspended at
  args,                  \* the arguments of the call
  identities,            \* identities the provider has created
  profilesTable,         \* rows of profiles written by signUp
  doctorsTable,          \* rows of doctors written by signUp
  returnedErrors,        \* tables whose write returned { error }
  result,                \* the promise of signUp: pending, resolved, rejected
  \* ---- verification flags of the store (SpecAdmin)
  doctorVerified,        \* doctors.is_verified by doctor id
  doctorRejected,        \* doctors.is_rejected by doctor id
  profileVerified,       \* profiles.is_verified by profile id
  \* ---- views that list doctors (SpecAdmin)
  directoryDoctors,      \* DoctorsPage.doctors: the ids listed
  selectorDoctors,       \* AppointmentPage.doctors: the ids offered
  pendingDoctors,        \* AdminPage.pendingDoctors: the ids listed
  dashDoctors,           \* AdminDashboard.doctors: id -> listed is_verified
  stats,                 \* AdminDashboard.stats.pendingDoctors
  dashLoaded,            \* history: both fetches of the last mount succeeded
  \* ---- user management (SpecSettings)
  users,                 \* SettingsPage.users: id -> listed role
  createdProfile,        \* role of the profiles row of the user created by
                         \* handleCreateUser, Null while there is no row
  \* ---- forms (SpecForms)
  formPage,              \* the page whose form is mounted
  registerForm,          \* the useState fields of RegisterForm
  passwordError,         \* useState passwordError of the mounted form
  formError,             \* useState formError of RegisterForm
  passwordData,          \* ProfilePage.passwordData
  newAdminEmail,         \* AdminDashboard.newAdminEmail
  adminEmails,           \* rows of the admin_emails table
  lastRemote,            \* the remote call issued in the step just taken
  formToast,             \* the title passed to toast() in that step, or Null
  \* ---- fetches in flight (SpecFetch)
  fUser,                 \* useAuth().user of the client
  fRole,                 \* useAuth().userRole of the client: Null until fetched
  mountedViews,          \* the views the client has mounted
  apptFetches,           \* fetchAppointments calls in flight: the role each
                         \* built its query with
  apptList,              \* AppointmentPage.appointments: the ids listed
  recordFetches,         \* fetchMedicalRecords calls in flight: the role each
                         \* built its query with
  records,               \* MedicalRecords.records: the ids listed
  selectedDate,          \* DoctorDashboard.selectedDate
  dailyFetches,          \* fetchDailyAppointments calls in flight: the date
                         \* each built its query with
  dailyList,             \* DoctorDashboard.todayAppointments: the ids listed
  \* ---- notifications
  toasts                 \* titles passed to toast()

apptVars == <<appointmentRows, profileRole, doctorRows, clientRole, view,
              loading, appointments, selectedAppointment, openViewAppointment,
              doctorId, todayAppointments, upcomingAppointments, lastWrite,
              lastToast>>

authVars == <<idpSession, sessionLookup, profileFetches, session, user,
              userRole, profile, isLoading, path, routeTable, signInPending,
              lastCall>>

profVars == <<profileName, profileEmail>>

signVars == <<pc, args, identities, profilesTable, doctorsTable,
              returnedErrors, result>>

adminVars == <<doctorVerified, doctorRejected, profileVerified,
               directoryDoctors, selectorDoctors, pendingDoctors, dashDoctors,
               stats, dashLoaded>>

settingsVars == <<users, createdProfile>>

formVars == <<formPage, registerForm, passwordError, formError, passwordData,
              newAdminEmail, adminEmails, lastRemote, formToast>>

fetchVars == <<fUser, fRole, mountedViews, apptFetches, apptList,
               recordFetches, records, selectedDate, dailyFetches, dailyList>>

vars == <<fetchVars,
          apptVars, authVars, profVars, signVars, adminVars, settingsVars,
          formVars,
          toasts>>

\* What each specification leaves alone.
nonApptVars == <<fetchVars,
                 authVars, profVars, signVars, adminVars, settingsVars,
                 formVars,
                 toasts>>
nonAuthVars == <<fetchVars,
                 formVars,
                 apptVars, profVars, signVars, adminVars, settingsVars>>
nonSignVars == <<fetchVars,
                 formVars,
                 apptVars, authVars, profVars, adminVars, settingsVars>>

\* =========================================================================
\*                              SpecAppt
\*
\* Several clients race on the store, so a remote call is one step here:
\* the handler's guard is the button the client's own, possibly stale, copy
\* offers, the store applies the call when it answers, and the handler's
\* continuation (re-fetch, dialog close) follows.  A copy a button is
\* rendered from changes only by the client's own reads, so moving the press
\* to the moment the store answers loses no sequence of writes; a read that
\* fails leaves the copy as it was.
\* =========================================================================

\* The signed-in users: one patient, one doctor (with a doctors row), one admin.
InitProfileRole == [u \in UserIds |->
                      CASE u = "u1" -> "patient"
                        [] u = "u2" -> "doctor"
                        [] OTHER    -> "admin"]

\* The query of fetchAppointments: every row, narrowed by the caller's role.
AppointmentsQuery(rows, role, uid) ==
  [a \in Appts |->
     LET row == rows[a] IN
     IF row.status = "none" THEN "none"
     ELSE IF role = "doctor" /\ row.doctor_id # uid THEN "none"
     ELSE IF role = "patient" /\ row.patient_id # uid THEN "none"
     ELSE row.status]

\* The daily query of DoctorDashboard: the doctor's rows of the selected day.
DailyQuery(rows, did) ==
  [a \in Appts |->
     LET row == rows[a] IN
     IF row.status # "none" /\ row.doctor_id = did THEN row.status ELSE "none"]

\* The upcoming query of DoctorDashboard: the doctor's scheduled rows.
UpcomingQuery(rows, did) ==
  [a \in Appts |->
     LET row == rows[a] IN
     IF row.status = "scheduled" /\ row.doctor_id = did THEN "scheduled"
     ELSE "none"]

ApptInit ==
  /\ appointmentRows = [a \in Appts |-> NoAppt]
  /\ profileRole = InitProfileRole
  /\ doctorRows = {u \in UserIds : InitProfileRole[u] = "doctor"}
  /\ clientRole = [c \in UserIds |-> Null]
  /\ view = [c \in UserIds |-> "none"]
  /\ loading = [c \in UserIds |-> TRUE]
  /\ appointments = [c \in UserIds |-> EmptyList]
  /\ selectedAppointment = [c \in UserIds |-> NoSelection]
  /\ openViewAppointment = [c \in UserIds |-> FALSE]
  /\ doctorId = [c \in UserIds |-> Null]
  /\ todayAppointments = [c \in UserIds |-> EmptyList]
  /\ upcomingAppointments = [c \in UserIds |-> EmptyList]
  /\ lastWrite = NoWrite
  /\ lastToast = {}

\* Variables grouped for UNCHANGED.
pageVars == <<selectedAppointment, openViewAppointment>>
dashVars == <<doctorId, todayAppointments, upcomingAppointments>>
storeVars == <<appointmentRows, profileRole, doctorRows>>

\* fetchAppointments: the list is replaced by the query's rows on success and
\* kept on error; loading is cleared either way.
fetchAppointments(c, rows, role, ok) ==
  /\ appointments' = IF ok
                     THEN [appointments EXCEPT
                             ![c] = AppointmentsQuery(rows, role, c)]
                     ELSE appointments
  /\ loading' = [loading EXCEPT ![c] = FALSE]

\* fetchDoctorData: nothing without a doctorId; else the upcoming list is
\* replaced unless its query failed, and loading is cleared either way.
fetchDoctorData(c, rows, did, ok) ==
  IF did = Null
  THEN UNCHANGED <<upcomingAppointments, loading>>
  ELSE /\ upcomingAppointments' =
            IF ok THEN [upcomingAppointments EXCEPT
                         ![c] = UpcomingQuery(rows, did)]
            ELSE upcomingAppointments
       /\ loading' = [loading EXCEPT ![c] = FALSE]

\* fetchDailyAppointments: nothing without a doctorId; else the daily list is
\* replaced on success.
fetchDailyAppointments(c, rows, did, ok) ==
  todayAppointments' =
    IF did # Null /\ ok
    THEN [todayAppointments EXCEPT ![c] = DailyQuery(rows, did)]
    ELSE todayAppointments

\* The dialog's buttons with "Mark as Completed" offered to every role.
StatusActionsLax(sel, role) ==
  (IF sel.status = "scheduled" THEN {"cancelled", "completed"} ELSE {})
  \cup (IF sel.status = "cancelled" /\ role = "patient"
        THEN {"scheduled"} ELSE {})

\* The status buttons of the appointment dialog for the shown appointment.
StatusActions(sel, role) ==
  (IF sel.status = "scheduled"
   THEN {"cancelled"} \cup (IF role \in {"doctor", "admin"}
                            THEN {"completed"} ELSE {})
   ELSE {})
  \cup (IF sel.status = "cancelled" /\ role = "patient"
        THEN {"scheduled"} ELSE {})

\* The toast of a fetch that returned an error.
FetchToast(ok, title) == IF ok THEN {} ELSE {title}

\* History: the write the store applies in this step, NoWrite when none.
Wrote(kind, id, from, to, by) ==
  lastWrite' = [kind |-> kind, id |-> id, from |-> from, to |-> to, by |-> by]

\* The row update `.update({ status }).eq('id', id)` as the store applies it.
ApplyStatusUpdate(c, id, s) ==
  /\ appointmentRows' = [appointmentRows EXCEPT ![id].status = s]
  /\ Wrote("update", id, appointmentRows[id].status, s, c)

\* fetchProfile resolves: setUserRole(data.role); AppointmentPage's effect on
\* [user, userRole] runs fetchAppointments again.
ProfileArrives(c, ok) ==
  /\ clientRole[c] = Null
  /\ clientRole' = [clientRole EXCEPT ![c] = profileRole[c]]
  /\ IF view[c] = "appointments"
     THEN fetchAppointments(c, appointmentRows, profileRole[c], ok)
     ELSE ok /\ UNCHANGED <<appointments, loading>>
  /\ lastToast' = FetchToast(ok, "Error fetching appointments")
  /\ lastWrite' = NoWrite
  /\ UNCHANGED <<storeVars, view, pageVars, dashVars>>
  /\ UNCHANGED nonApptVars

\* AppointmentPage mounts: fresh state, the effect runs fetchAppointments.
MountAppointmentPage(c, ok) ==
  /\ view[c] # "appointments"
  /\ view' = [view EXCEPT ![c] = "appointments"]
  /\ selectedAppointment' = [selectedAppointment EXCEPT ![c] = NoSelection]
  /\ openViewAppointment' = [openViewAppointment EXCEPT ![c] = FALSE]
  /\ doctorId' = [doctorId EXCEPT ![c] = Null]
  /\ todayAppointments' = [todayAppointments EXCEPT ![c] = EmptyList]
  /\ upcomingAppointments' = [upcomingAppointments EXCEPT ![c] = EmptyList]
  /\ appointments' = [appointments EXCEPT
       ![c] = IF ok THEN AppointmentsQuery(appointmentRows, clientRole[c], c)
              ELSE EmptyList]
  /\ loading' = [loading EXCEPT ![c] = FALSE]
  /\ lastToast' = FetchToast(ok, "Error fetching appointments")
  /\ lastWrite' = NoWrite
  /\ UNCHANGED <<storeVars, clientRole>>
  /\ UNCHANGED nonApptVars

\* "View Details" on a listed appointment: the dialog keeps the listed copy.
handleViewAppointment(c, a) ==
  /\ view[c] = "appointments"
  /\ ~loading[c]
  /\ ~openViewAppointment[c]
  /\ appointments[c][a] # "none"
  /\ selectedAppointment' = [selectedAppointment EXCEPT
                               ![c] = [id |-> a, status |-> appointments[c][a]]]
  /\ openViewAppointment' = [openViewAppointment EXCEPT ![c] = TRUE]
  /\ lastToast' = {}
  /\ lastWrite' = NoWrite
  /\ UNCHANGED <<storeVars, clientRole, view, loading, appointments, dashVars>>
  /\ UNCHANGED nonApptVars

\* The dialog is dismissed (onOpenChange(false)).
CloseViewAppointment(c) ==
  /\ view[c] = "appointments"
  /\ openViewAppointment[c]
  /\ openViewAppointment' = [openViewAppointment EXCEPT ![c] = FALSE]
  /\ lastToast' = {}
  /\ lastWrite' = NoWrite
  /\ UNCHANGED <<storeVars, clientRole, view, loading, appointments,
                 selectedAppointment, dashVars>>
  /\ UNCHANGED nonApptVars

\* A status button of the dialog is pressed: updateAppointmentStatus(id, s).
\* On success the row is written, fetchAppointments runs and the dialog
\* closes; on error nothing changes.
updateAppointmentStatus(c, s, ok, okFetch) ==
  /\ view[c] = "appointments"
  /\ openViewAppointment[c]
  /\ selectedAppointment[c] # NoSelection
  /\ s \in StatusActions(selectedAppointment[c], clientRole[c])
  /\ IF ok
     THEN /\ ApplyStatusUpdate(c, selectedAppointment[c].id, s)
          /\ fetchAppointments(c, appointmentRows', clientRole[c], okFetch)
          /\ openViewAppointment' = [openViewAppointment EXCEPT ![c] = FALSE]
          /\ lastToast' = {"Appointment updated"}
               \cup FetchToast(okFetch, "Error fetching appointments")
     ELSE /\ okFetch
          /\ lastToast' = {"Error updating appointment"}
          /\ lastWrite' = NoWrite
          /\ UNCHANGED <<appointmentRows, appointments, loading,
                         openViewAppointment>>
  /\ UNCHANGED <<profileRole, doctorRows, clientRole, view,
                 selectedAppointment, dashVars>>
  /\ UNCHANGED nonApptVars

\* The foreign keys of the appointments table.
InsertAccepted(row) ==
  /\ row.doctor_id \in doctorRows
  /\ row.patient_id \in UserIds
  /\ \E a \in Appts : appointmentRows[a] = NoAppt

\* The booking form is submitted with the chosen doctor and (admin only) the
\* patient selector's value, which starts as the user's own id.  On success
\* the row exists with status scheduled and fetchAppointments runs.
handleSubmit(c, formDoctorId, formPatientId, ok, okFetch) ==
  /\ view[c] = "appointments"
  /\ clientRole[c] \in {"patient", "admin"}
  /\ ~openViewAppointment[c]
  /\ formDoctorId \in doctorRows \cup {""}
  /\ formPatientId \in {u \in UserIds : profileRole[u] = "patient"} \cup {c}
  /\ LET row == [status |-> "scheduled",
                 patient_id |-> IF clientRole[c] = "admin"
                                THEN formPatientId ELSE c,
                 doctor_id |-> formDoctorId]
     IN IF ok
        THEN /\ InsertAccepted(row)
             /\ LET a == CHOOSE x \in Appts : appointmentRows[x] = NoAppt
                IN /\ appointmentRows' = [appointmentRows EXCEPT ![a] = row]
                   /\ Wrote("insert", a, "none", row.status, c)
             /\ fetchAppointments(c, appointmentRows', clientRole[c], okFetch)
             /\ lastToast' = {"Appointment created"}
                  \cup FetchToast(okFetch, "Error fetching appointments")
        ELSE /\ okFetch
             /\ lastToast' = {"Error creating appointment"}
             /\ lastWrite' = NoWrite
             /\ UNCHANGED <<appointmentRows, appointments, loading>>
  /\ UNCHANGED <<profileRole, doctorRows, clientRole, view, pageVars, dashVars>>
  /\ UNCHANGED nonApptVars

\* ------------------------------------------------------- DoctorDashboard

\* fetchDoctorId: `.single()` yields the user's doctors row or an error.
fetchDoctorId(c, ok) == IF ok /\ c \in doctorRows THEN c ELSE Null

\* DoctorDashboard mounts: fresh state, the effect on [user] runs
\* fetchDoctorId; a found id runs the effect on [doctorId, selectedDate].
MountDoctorDashboard(c, okId, okData, okDaily) ==
  /\ view[c] # "doctorDashboard"
  /\ view' = [view EXCEPT ![c] = "doctorDashboard"]
  /\ appointments' = [appointments EXCEPT ![c] = EmptyList]
  /\ selectedAppointment' = [selectedAppointment EXCEPT ![c] = NoSelection]
  /\ openViewAppointment' = [openViewAppointment EXCEPT ![c] = FALSE]
  /\ LET did == fetchDoctorId(c, okId) IN
     /\ doctorId' = [doctorId EXCEPT ![c] = did]
     /\ loading' = [loading EXCEPT ![c] = (did = Null)]
     /\ upcomingAppointments' = [upcomingAppointments EXCEPT
          ![c] = IF did # Null /\ okData
                 THEN UpcomingQuery(appointmentRows, did) ELSE EmptyList]
     /\ todayAppointments' = [todayAppointments EXCEPT
          ![c] = IF did # Null /\ okDaily
                 THEN DailyQuery(appointmentRows, did) ELSE EmptyList]
     /\ (did = Null => okData /\ okDaily)
     /\ lastToast' = (IF did = Null
                      THEN {"Error fetching doctor information"} ELSE {})
          \cup FetchToast(okData, "Error fetching doctor data")
          \cup FetchToast(okDaily, "Error fetching daily appointments")
  /\ lastWrite' = NoWrite
  /\ UNCHANGED <<storeVars, clientRole>>
  /\ UNCHANGED nonApptVars

\* The buttons of the dashboard cards: "Mark Completed" on a daily card whose
\* listed status is scheduled, "Cancel" on every upcoming card.
DashboardActions(c, a) ==
  (IF todayAppointments[c][a] = "scheduled" THEN {"completed"} ELSE {})
  \cup (IF upcomingAppointments[c][a] # "none" THEN {"cancelled"} ELSE {})

\* A card button is pressed: handleUpdateAppointmentStatus(id, s).  On success
\* the row is written and both fetches run again; on error nothing changes.
handleUpdateAppointmentStatus(c, a, s, ok, okData, okDaily) ==
  /\ view[c] = "doctorDashboard"
  /\ ~loading[c]
  /\ s \in DashboardActions(c, a)
  /\ IF ok
     THEN /\ ApplyStatusUpdate(c, a, s)
          /\ fetchDoctorData(c, appointmentRows', doctorId[c], okData)
          /\ fetchDailyAppointments(c, appointmentRows', doctorId[c], okDaily)
          /\ lastToast' = {"Status Updated"}
               \cup FetchToast(okData, "Error fetching doctor data")
               \cup FetchToast(okDaily, "Error fetching daily appointments")
     ELSE /\ okData /\ okDaily
          /\ lastToast' = {"Update Error"}
          /\ lastWrite' = NoWrite
          /\ UNCHANGED <<appointmentRows, upcomingAppointments,
                         todayAppointments, loading>>
  /\ UNCHANGED <<profileRole, doctorRows, clientRole, view, appointments,
                 pageVars, doctorId>>
  /\ UNCHANGED nonApptVars

ApptNext ==
  \/ \E c \in UserIds, ok \in BOOLEAN : ProfileArrives(c, ok)
  \/ \E c \in UserIds, ok \in BOOLEAN : MountAppointmentPage(c, ok)
  \/ \E c \in UserIds, a \in Appts : handleViewAppointment(c, a)
  \/ \E c \in UserIds : CloseViewAppointment(c)
  \/ \E c \in UserIds, s \in Status, ok \in BOOLEAN, okFetch \in BOOLEAN :
       updateAppointmentStatus(c, s, ok, okFetch)
  \/ \E c \in UserIds, d \in UserIds \cup {""}, p \in UserIds,
        ok \in BOOLEAN, okFetch \in BOOLEAN :
       handleSubmit(c, d, p, ok, okFetch)
  \/ \E c \in UserIds, okId \in BOOLEAN, okData \in BOOLEAN,
        okDaily \in BOOLEAN :
       MountDoctorDashboard(c, okId, okData, okDaily)
  \/ \E c \in UserIds, a \in Appts, s \in Status, ok \in BOOLEAN,
        okData \in BOOLEAN, okDaily \in BOOLEAN :
       handleUpdateAppointmentStatus(c, a, s, ok, okData, okDaily)

\* =========================================================================
\*                              SpecAuth
\*
\* One browser: the AuthProvider, the identity provider it talks to, the
\* router with one of the two route tables, and what the matched route
\* shows.  The provider's listeners run inside the auth call that causes the
\* event, so signIn / signOut deliver their session to onAuthStateChange in
\* the same step.  The store of profiles is profileRole.
\* =========================================================================

RouteTables == {"app1", "app2"}
Paths == {"/auth", "/dashboard", "/appointments", "/doctors", "/patients",
          "/admin", "/settings", "/unauthorized"}

NoProfile == [id |-> Null, role |-> Null, first_name |-> Null, email |-> Null]

\* The profiles row of a user, as select('*').eq('id', userId).single()
\* returns it from the columns given.
ProfileRow(userId, role, name, email) ==
  [id |-> userId, role |-> role[userId], first_name |-> name[userId],
   email |-> email[userId]]

\* Values of the first_name and email columns.
Names == {"Ann", "Bea"}
Emails == {"a@x", "b@x"}

\* No call of the AuthProvider API has finished yet.
NoCall == [op |-> "none", ok |-> TRUE, thrown |-> FALSE, attempts |-> 0,
           seq |-> 0]

\* The record of a finished call: whether the remote request succeeded,
\* whether the promise was rejected, how many remote requests were made; seq
\* tells two calls in a row apart.
Call(op, ok, thrown, attempts) ==
  [op |-> op, ok |-> ok, thrown |-> thrown, attempts |-> attempts,
   seq |-> 1 - lastCall.seq]

\* allowedRoles of a guard: absent, or the listed roles.
NoAllowedRoles == [given |-> FALSE, roles |-> {}]
Allowed(S) == [given |-> TRUE, roles |-> S]

\* ProtectedRoute: the skeleton while loading, Navigate to /auth without a
\* user, Navigate to the fallback for a known role outside allowedRoles, else
\* the children / Outlet.
ProtectedRoute(allowedRoles, fallback) ==
  IF isLoading THEN "loading"
  ELSE IF user = Null THEN "/auth"
  ELSE IF allowedRoles.given /\ userRole # Null
          /\ userRole \notin allowedRoles.roles
       THEN fallback
  ELSE "render"

\* The fallback of the guard each route table imports: the first table wraps
\* its routes in Layout itself and uses the guard that navigates to
\* /dashboard, the second relies on the guard that renders Layout and
\* navigates to /unauthorized.
Fallback(table) == IF table = "app1" THEN "/dashboard" ELSE "/unauthorized"

\* The guards around a path, outermost first; <<>> for a public path.
RouteGuards(table, p) ==
  IF table = "app1"
  THEN CASE p \in {"/dashboard", "/appointments", "/doctors"} ->
              <<NoAllowedRoles>>
         [] p = "/admin" -> <<NoAllowedRoles, Allowed({"admin"})>>
         [] p = "/patients" -> <<NoAllowedRoles, Allowed({"doctor", "admin"})>>
         [] OTHER -> <<>>
  ELSE CASE p \in {"/dashboard", "/appointments"} -> <<NoAllowedRoles>>
         [] p = "/settings" -> <<Allowed({"admin"})>>
         [] p = "/patients" -> <<Allowed({"doctor", "admin"})>>
         [] p = "/doctors" -> <<Allowed({"patient", "admin"})>>
         [] OTHER -> <<>>

\* The element a path is routed to.
RouteElement(table, p) ==
  CASE p = "/auth" -> "Auth"
    [] p = "/dashboard" -> "Dashboard"
    [] p = "/appointments" -> "Appointments"
    [] p = "/doctors" -> "Doctors"
    [] p = "/patients" -> "Patients"
    [] p = "/admin" /\ table = "app1" -> "AdminPage"
    [] p = "/settings" /\ table = "app2" -> "SettingsPage"
    [] p = "/unauthorized" /\ table = "app2" -> "Unauthorized"
    [] OTHER -> "NotFound"

\* The guards of a route evaluated outermost first: the first one that does
\* not render decides.
RECURSIVE GuardChain(_, _)
GuardChain(guards, fallback) ==
  IF guards = <<>> THEN "render"
  ELSE LET out == ProtectedRoute(Head(guards), fallback)
       IN IF out = "render" THEN GuardChain(Tail(guards), fallback) ELSE out

\* The admin views' own role checks.
AdminDashboard(role) == IF role # "admin" THEN "/dashboard" ELSE "AdminDashboard"
AdminPage(role) == IF role # "admin" THEN "Unauthorized" ELSE "AdminPage"
SettingsPage(role) == IF role # "admin" THEN "Access Denied" ELSE "SettingsPage"

\* The Auth page navigates to /dashboard when a user is set.
Auth == IF user # Null THEN "/dashboard" ELSE "Auth"

\* What an element renders.
Element(e) ==
  CASE e = "Auth" -> Auth
    [] e = "AdminPage" -> AdminPage(userRole)
    [] e = "SettingsPage" -> SettingsPage(userRole)
    [] OTHER -> e

\* What the router shows at the current location: a path stands for a
\* rendered <Navigate to=path>.
GuardOutput == GuardChain(RouteGuards(routeTable, path), Fallback(routeTable))
Screen ==
  IF GuardOutput # "render" THEN GuardOutput
  ELSE Element(RouteElement(routeTable, path))

\* Layout (with its logout button) is on screen.
LayoutShown == RouteGuards(routeTable, path) # <<>> /\ GuardOutput = "render"

AuthInit ==
  /\ idpSession \in UserIds \cup {Null}
  /\ sessionLookup = "pending"
  /\ profileFetches = {}
  /\ session = Null
  /\ user = Null
  /\ userRole = Null
  /\ profile = NoProfile
  /\ isLoading = TRUE
  /\ path \in {"/auth", "/dashboard"}
  /\ routeTable \in RouteTables
  /\ signInPending = Null
  /\ lastCall = NoCall
  /\ profileName = [u \in UserIds |-> "Ann"]
  /\ profileEmail = [u \in UserIds |-> "a@x"]

\* fetchProfile is called: the request is in flight.
fetchProfile(userId) == profileFetches' = profileFetches \cup {userId}

\* The callback given to onAuthStateChange.
onAuthStateChange(currentSession) ==
  /\ session' = currentSession
  /\ user' = currentSession
  /\ IF currentSession # Null
     THEN /\ fetchProfile(currentSession)
          /\ UNCHANGED <<profile, userRole>>
     ELSE /\ profile' = NoProfile
          /\ userRole' = Null
          /\ UNCHANGED profileFetches

\* getSession() of the mount effect resolves.
getSessionResolves ==
  /\ sessionLookup = "pending"
  /\ sessionLookup' = "done"
  /\ session' = idpSession
  /\ user' = idpSession
  /\ IF idpSession # Null THEN fetchProfile(idpSession)
     ELSE UNCHANGED profileFetches
  /\ isLoading' = FALSE
  /\ UNCHANGED <<idpSession, userRole, profile, path, routeTable, toasts>>
  /\ UNCHANGED <<signInPending, lastCall>>
  /\ UNCHANGED nonAuthVars

\* A fetchProfile request resolves: with the row, profile and userRole are
\* set; with an error nothing is.
fetchProfileResolves(userId, ok) ==
  /\ userId \in profileFetches
  /\ profileFetches' = profileFetches \ {userId}
  /\ IF ok
     THEN /\ profile' = ProfileRow(userId, profileRole, profileName,
                                   profileEmail)
          /\ userRole' = profileRole[userId]
     ELSE UNCHANGED <<profile, userRole>>
  /\ UNCHANGED <<idpSession, sessionLookup, session, user, isLoading, path,
                 routeTable, toasts>>
  /\ UNCHANGED <<signInPending, lastCall>>
  /\ UNCHANGED nonAuthVars

\* LoginForm.handleSubmit up to its await: the form on the Auth screen is
\* submitted and signIn is called; signIn sets no state before its request.
LoginForm_handleSubmit(u) ==
  /\ Screen = "Auth"
  /\ signInPending = Null
  /\ signInPending' = u
  /\ UNCHANGED <<idpSession, sessionLookup, profileFetches, session, user,
                 userRole, profile, isLoading, path, routeTable, lastCall,
                 toasts>>
  /\ UNCHANGED nonAuthVars

\* signIn whose failed request is not reported and not thrown, so that the
\* login form navigates.
signInSilent(u, ok) ==
  /\ signInPending = u
  /\ signInPending' = Null
  /\ IF ok
     THEN /\ idpSession' = u
          /\ onAuthStateChange(u)
          /\ path' = "/dashboard"
          /\ lastCall' = Call("signIn", TRUE, FALSE, 1)
          /\ UNCHANGED toasts
     ELSE /\ path' = "/dashboard"
          /\ lastCall' = Call("signIn", FALSE, FALSE, 1)
          /\ UNCHANGED <<idpSession, session, user, profile, userRole,
                         profileFetches, toasts>>
  /\ UNCHANGED <<sessionLookup, isLoading, routeTable>>
  /\ UNCHANGED nonAuthVars

\* signInWithPassword answers the suspended signIn, once.  On success the
\* listener runs and the login form navigates to /dashboard; an error is
\* toasted and thrown, and the form stays.
signIn(u, ok) ==
  /\ signInPending = u
  /\ signInPending' = Null
  /\ IF ok
     THEN /\ idpSession' = u
          /\ onAuthStateChange(u)
          /\ path' = "/dashboard"
          /\ lastCall' = Call("signIn", TRUE, FALSE, 1)
          /\ UNCHANGED toasts
     ELSE /\ toasts' = toasts \cup {"Sign In Error"}
          /\ lastCall' = Call("signIn", FALSE, TRUE, 1)
          /\ UNCHANGED <<idpSession, session, user, profile, userRole,
                         profileFetches, path>>
  /\ UNCHANGED <<sessionLookup, isLoading, routeTable>>
  /\ UNCHANGED nonAuthVars

\* Layout's logout button: signOut, then navigate('/auth').  The result of
\* auth.signOut() is not inspected: nothing is toasted or thrown, and the
\* state is cleared by the listener only, which runs when the provider
\* ended the session.
signOut(ok) ==
  /\ LayoutShown
  /\ IF ok
     THEN /\ idpSession' = Null
          /\ onAuthStateChange(Null)
     ELSE UNCHANGED <<idpSession, session, user, profile, userRole,
                      profileFetches>>
  /\ path' = "/auth"
  /\ lastCall' = Call("signOut", ok, FALSE, 1)
  /\ UNCHANGED <<sessionLookup, isLoading, routeTable, toasts, signInPending>>
  /\ UNCHANGED nonAuthVars

\* The session ends outside the application (expiry, another tab): the
\* listener is called without a session.
SessionExpires ==
  /\ idpSession # Null
  /\ sessionLookup = "done"
  /\ idpSession' = Null
  /\ onAuthStateChange(Null)
  /\ UNCHANGED <<sessionLookup, isLoading, path, routeTable, toasts>>
  /\ UNCHANGED <<signInPending, lastCall>>
  /\ UNCHANGED nonAuthVars

\* A rendered <Navigate> takes effect.
Navigate ==
  /\ Screen \in Paths
  /\ path' = Screen
  /\ UNCHANGED <<idpSession, sessionLookup, profileFetches, session, user,
                 userRole, profile, isLoading, routeTable, toasts>>
  /\ UNCHANGED <<signInPending, lastCall>>
  /\ UNCHANGED nonAuthVars

\* The user follows a link or enters a location.
GoTo(p) ==
  /\ p # path
  /\ path' = p
  /\ UNCHANGED <<idpSession, sessionLookup, profileFetches, session, user,
                 userRole, profile, isLoading, routeTable, toasts>>
  /\ UNCHANGED <<signInPending, lastCall>>
  /\ UNCHANGED nonAuthVars

AuthNext ==
  \/ getSessionResolves
  \/ \E u \in UserIds, ok \in BOOLEAN : fetchProfileResolves(u, ok)
  \/ \E u \in UserIds : LoginForm_handleSubmit(u)
  \/ \E u \in UserIds, ok \in BOOLEAN : signIn(u, ok)
  \/ \E ok \in BOOLEAN : signOut(ok)
  \/ SessionExpires
  \/ Navigate
  \/ \E p \in Paths : GoTo(p)

\* =========================================================================
\*                              SpecSignUp
\*
\* One call of AuthProvider.signUp, one step per awaited remote call.
\* =========================================================================

Absent == "undefined"
NewUser == "u4"
SignUpRoles == Roles \cup {Absent}
TextInputs == {Absent, "", "text"}
NoYears == [given |-> FALSE, value |-> 0]
Years(n) == [given |-> TRUE, value |-> n]
YearsInputs == {NoYears, Years(0), Years(5)}

NoArgs == [role |-> Absent, qualification |-> Absent, specialty |-> Absent,
           experienceYears |-> NoYears]

\* The default of the role parameter.
Role(a) == IF a.role = Absent THEN "patient" ELSE a.role

\* Truthiness of an optional string argument.
Truthy(s) == s # Absent /\ s # ""

\* const isVerified = role !== 'doctor'
isVerified(role) == role # "doctor"

\* The condition under which signUp inserts into doctors.
InsertsDoctor(a) ==
  /\ Role(a) = "doctor"
  /\ Truthy(a.qualification)
  /\ Truthy(a.specialty)
  /\ a.experienceYears.given

SignUpInit ==
  /\ pc = "idle"
  /\ args = NoArgs
  /\ identities = {}
  /\ profilesTable = {}
  /\ doctorsTable = {}
  /\ returnedErrors = {}
  /\ result = "pending"

\* The end of the try block: the "Account created" toast, the promise
\* resolves.
AccountCreated ==
  /\ toasts' = toasts \cup {"Account created"}
  /\ result' = "resolved"
  /\ pc' = "done"

\* signUp is called.
signUp(a) ==
  /\ pc = "idle"
  /\ args' = a
  /\ pc' = "auth.signUp"
  /\ UNCHANGED <<identities, profilesTable, doctorsTable, returnedErrors,
                 result, toasts>>
  /\ UNCHANGED nonSignVars

\* supabase.auth.signUp answers: an error is thrown to the catch block (toast
\* and rethrow); a user goes on to the profile write; no user and no error
\* skips the writes.
authSignUpReturns(outcome) ==
  /\ pc = "auth.signUp"
  /\ CASE outcome = "error" ->
            /\ toasts' = toasts \cup {"Sign Up Error"}
            /\ result' = "rejected"
            /\ pc' = "done"
            /\ UNCHANGED identities
       [] outcome = "user" ->
            /\ identities' = identities \cup {NewUser}
            /\ pc' = "profiles.upsert"
            /\ UNCHANGED <<toasts, result>>
       [] OTHER ->
            /\ AccountCreated
            /\ UNCHANGED identities
  /\ UNCHANGED <<args, profilesTable, doctorsTable, returnedErrors>>
  /\ UNCHANGED nonSignVars

\* profiles.upsert answers; its result is not inspected.  A doctor with all
\* three optional arguments goes on to the doctors insert, anyone else to
\* the end of the try block.
profilesUpsertReturns(ok) ==
  /\ pc = "profiles.upsert"
  /\ IF ok
     THEN /\ profilesTable' =
               {r \in profilesTable : r.id # NewUser}
               \cup {[id |-> NewUser, role |-> Role(args),
                      is_verified |-> isVerified(Role(args))]}
          /\ UNCHANGED returnedErrors
     ELSE /\ returnedErrors' = returnedErrors \cup {"profiles"}
          /\ UNCHANGED profilesTable
  /\ IF InsertsDoctor(args)
     THEN /\ pc' = "doctors.insert"
          /\ UNCHANGED <<toasts, result>>
     ELSE AccountCreated
  /\ UNCHANGED <<args, identities, doctorsTable>>
  /\ UNCHANGED nonSignVars

\* doctors.insert answers; its result is not inspected either.
doctorsInsertReturns(ok) ==
  /\ pc = "doctors.insert"
  /\ IF ok
     THEN /\ doctorsTable' =
               doctorsTable
               \cup {[id |-> NewUser,
                      experience_years |-> args.experienceYears.value,
                      is_verified |-> FALSE]}
          /\ UNCHANGED returnedErrors
     ELSE /\ returnedErrors' = returnedErrors \cup {"doctors"}
          /\ UNCHANGED doctorsTable
  /\ AccountCreated
  /\ UNCHANGED <<args, identities, profilesTable>>
  /\ UNCHANGED nonSignVars

SignUpNext ==
  \/ \E r \in SignUpRoles, q \in TextInputs, s \in TextInputs,
        y \in YearsInputs :
       signUp([role |-> r, qualification |-> q, specialty |-> s,
               experienceYears |-> y])
  \/ \E outcome \in {"user", "error", "noUser"} : authSignUpReturns(outcome)
  \/ \E ok \in BOOLEAN : profilesUpsertReturns(ok)
  \/ \E ok \in BOOLEAN : doctorsInsertReturns(ok)

\* =========================================================================
\*  SpecAdmin: doctor verification and the views that list doctors
\* =========================================================================
\* The store holds one doctors row per id in doctorRows, with its
\* is_verified and is_rejected columns, and the is_verified column of the
\* profiles rows.  Four views list doctors: the doctor directory
\* (DoctorsPage), the doctor selector of the booking form
\* (AppointmentPage), the pending list of AdminPage and the doctor table of
\* AdminDashboard with its pending counter.  Every remote call is one step.

nonAdminVars == <<fetchVars,
                  formVars,
                  apptVars, authVars, profVars, signVars, settingsVars>>

\* useState<Doctor[]>([]) of AdminDashboard, as a map id -> is_verified.
NoDoctors == [d \in {} |-> FALSE]

AdminInit ==
  /\ doctorVerified = [u \in UserIds |-> FALSE]
  /\ doctorRejected = [u \in UserIds |-> FALSE]
  /\ profileVerified = [u \in UserIds |-> isVerified(InitProfileRole[u])]
  /\ directoryDoctors = {}
  /\ selectorDoctors = {}
  /\ pendingDoctors = {}
  /\ dashDoctors = NoDoctors
  /\ stats = 0
  /\ dashLoaded = FALSE

\* DoctorsPage.fetchDoctors, run by the mount effect:
\* from('doctors').select(...).eq('is_verified', true).
Doctors_fetchDoctors(ok) ==
  /\ directoryDoctors' =
       IF ok THEN {d \in doctorRows : doctorVerified[d]} ELSE {}
  /\ toasts' = IF ok THEN toasts ELSE toasts \cup {"Error fetching doctors"}
  /\ UNCHANGED <<doctorVerified, doctorRejected, profileVerified,
                 selectorDoctors, pendingDoctors, dashDoctors, stats,
                 dashLoaded>>
  /\ UNCHANGED nonAdminVars

\* The query of AppointmentPage.fetchDoctors:
\* from('doctors').select('*, profile:profiles(*)'), no filter.
SelectorQuery == doctorRows

\* AppointmentPage.fetchDoctors, run by the effect on [user, userRole].
AppointmentPage_fetchDoctors(ok) ==
  /\ selectorDoctors' = IF ok THEN SelectorQuery ELSE selectorDoctors
  /\ toasts' = IF ok THEN toasts ELSE toasts \cup {"Error fetching doctors"}
  /\ UNCHANGED <<doctorVerified, doctorRejected, profileVerified,
                 directoryDoctors, pendingDoctors, dashDoctors, stats,
                 dashLoaded>>
  /\ UNCHANGED nonAdminVars

\* The list AdminPage.fetchPendingDoctors installs, read from the flags
\* given: from('doctors').select(...).eq('is_verified', false).
PendingQuery(verified) == {d \in doctorRows : ~verified[d]}

\* AdminPage.fetchPendingDoctors, run by the mount effect.
fetchPendingDoctors(ok) ==
  /\ pendingDoctors' =
       IF ok THEN PendingQuery(doctorVerified) ELSE pendingDoctors
  /\ toasts' = IF ok THEN toasts
               ELSE toasts \cup {"Error fetching pending doctors"}
  /\ UNCHANGED <<doctorVerified, doctorRejected, profileVerified,
                 directoryDoctors, selectorDoctors, dashDoctors, stats,
                 dashLoaded>>
  /\ UNCHANGED nonAdminVars

\* AdminPage.handleVerifyDoctor: the Approve or Reject button of a listed
\* pending doctor.  Approve updates doctors and then profiles, Reject
\* updates doctors only; a returned error is thrown and reported, and the
\* pending list is fetched again only when nothing was thrown.
AdminPage_handleVerifyDoctor(docId, isApproved, okDoctor, okProfile, okF) ==
  /\ docId \in pendingDoctors
  /\ LET done == okDoctor /\ (isApproved => okProfile)
         verified == IF okDoctor
                     THEN [doctorVerified EXCEPT ![docId] = isApproved]
                     ELSE doctorVerified
     IN /\ doctorVerified' = verified
        /\ doctorRejected' =
             IF okDoctor /\ ~isApproved
             THEN [doctorRejected EXCEPT ![docId] = TRUE]
             ELSE doctorRejected
        /\ profileVerified' =
             IF isApproved /\ okDoctor /\ okProfile
             THEN [profileVerified EXCEPT ![docId] = TRUE]
             ELSE profileVerified
        /\ pendingDoctors' =
             IF done /\ okF THEN PendingQuery(verified)
             ELSE pendingDoctors
        /\ toasts' = toasts
             \cup (IF done
                   THEN {IF isApproved THEN "Doctor verified"
                         ELSE "Doctor rejected"}
                   ELSE {"Error updating doctor status"})
             \cup (IF done /\ ~okF
                   THEN {"Error fetching pending doctors"} ELSE {})
        \* results that are never read do not split the step
        /\ (~okDoctor => okProfile /\ okF)
        /\ (~isApproved => okProfile)
        /\ (~done => okF)
  /\ UNCHANGED <<directoryDoctors, selectorDoctors, dashDoctors, stats,
                 dashLoaded>>
  /\ UNCHANGED nonAdminVars

\* AdminDashboard.fetchDoctors: every doctors row with its is_verified.
AdminDashboard_fetchDoctors(ok) ==
  IF ok THEN [d \in doctorRows |-> doctorVerified[d]] ELSE NoDoctors

\* AdminDashboard.fetchStats, the pendingDoctors counter: the count of
\* doctors rows with is_verified false; an error leaves the counter as it
\* was constructed.
fetchStats(ok) ==
  IF ok THEN Cardinality({d \in doctorRows : ~doctorVerified[d]}) ELSE 0

\* The mount effect of AdminDashboard: fetchDoctors and fetchStats on the
\* freshly constructed state.
MountAdminDashboard(okDoctors, okStats) ==
  /\ dashDoctors' = AdminDashboard_fetchDoctors(okDoctors)
  /\ stats' = fetchStats(okStats)
  /\ dashLoaded' = (okDoctors /\ okStats)
  /\ toasts' = toasts
       \cup (IF okDoctors THEN {} ELSE {"Error fetching doctors"})
       \cup (IF okStats THEN {} ELSE {"Error fetching statistics"})
  /\ UNCHANGED <<doctorVerified, doctorRejected, profileVerified,
                 directoryDoctors, selectorDoctors, pendingDoctors>>
  /\ UNCHANGED nonAdminVars

\* The pendingDoctors counter after a successful update, with a Revoke that
\* leaves the counter alone.
PendingAfterFlat(n, toVerified) ==
  IF toVerified THEN (IF n - 1 > 0 THEN n - 1 ELSE 0) ELSE n

\* The pendingDoctors counter after a successful update:
\* isVerified ? Math.max(0, stats.pendingDoctors - 1)
\*            : stats.pendingDoctors + 1
PendingAfter(n, toVerified) ==
  IF toVerified THEN (IF n - 1 > 0 THEN n - 1 ELSE 0) ELSE n + 1

\* handleVerifyDoctor with the listed row and the counter adjusted before
\* the update is answered and kept when it fails.
AdminDashboard_handleVerifyEager(docId, toVerified, ok) ==
  /\ docId \in DOMAIN dashDoctors
  /\ dashDoctors[docId] = ~toVerified
  /\ dashDoctors' = [dashDoctors EXCEPT ![docId] = toVerified]
  /\ stats' = PendingAfter(stats, toVerified)
  /\ IF ok
     THEN /\ doctorVerified' = [doctorVerified EXCEPT ![docId] = toVerified]
          /\ toasts' = toasts \cup {IF toVerified THEN "Doctor verified"
                                    ELSE "Doctor verification revoked"}
     ELSE /\ UNCHANGED doctorVerified
          /\ toasts' = toasts \cup {"Error updating verification status"}
  /\ UNCHANGED <<doctorRejected, profileVerified, directoryDoctors,
                 selectorDoctors, pendingDoctors, dashLoaded>>
  /\ UNCHANGED nonAdminVars

\* AdminDashboard.handleVerifyDoctor: the Verify button of a doctor listed
\* as unverified (toVerified = TRUE) or the Revoke button of one listed as
\* verified (toVerified = FALSE).  Only the doctors row is updated; on
\* success the listed row and the counter are adjusted locally.
AdminDashboard_handleVerifyDoctor(docId, toVerified, ok) ==
  /\ docId \in DOMAIN dashDoctors
  /\ dashDoctors[docId] = ~toVerified
  /\ IF ok
     THEN /\ doctorVerified' = [doctorVerified EXCEPT ![docId] = toVerified]
          /\ dashDoctors' = [dashDoctors EXCEPT ![docId] = toVerified]
          /\ stats' = PendingAfter(stats, toVerified)
          /\ toasts' = toasts \cup {IF toVerified THEN "Doctor verified"
                                    ELSE "Doctor verification revoked"}
     ELSE /\ UNCHANGED <<doctorVerified, dashDoctors, stats>>
          /\ toasts' = toasts \cup {"Error updating verification status"}
  /\ UNCHANGED <<doctorRejected, profileVerified, directoryDoctors,
                 selectorDoctors, pendingDoctors, dashLoaded>>
  /\ UNCHANGED nonAdminVars

AdminNext ==
  \/ \E ok \in BOOLEAN : Doctors_fetchDoctors(ok)
  \/ \E ok \in BOOLEAN : AppointmentPage_fetchDoctors(ok)
  \/ \E ok \in BOOLEAN : fetchPendingDoctors(ok)
  \/ \E d \in UserIds, isApproved, okDoctor, okProfile, okF \in BOOLEAN :
       AdminPage_handleVerifyDoctor(d, isApproved, okDoctor, okProfile, okF)
  \/ \E okDoctors, okStats \in BOOLEAN :
       MountAdminDashboard(okDoctors, okStats)
  \/ \E d \in UserIds, toVerified, ok \in BOOLEAN :
       AdminDashboard_handleVerifyDoctor(d, toVerified, ok)

\* =========================================================================
\*  SpecProfile: AuthProvider.updateProfile of a signed-in user
\* =========================================================================
\* The AuthProvider of SpecAuth with a session at the provider, the
\* profiles rows with their role, first_name and email columns, and the
\* calls of updateProfile: by ProfilePage, whose payload carries the name
\* fields only, and by any consumer of the context with any payload.

apptVarsButRole == <<appointmentRows, doctorRows, clientRole, view, loading,
                     appointments, selectedAppointment, openViewAppointment,
                     doctorId, todayAppointments, upcomingAppointments,
                     lastWrite, lastToast>>

\* The payloads of updateProfile(updates: any): each column given or not.
Updates == [first_name : Names \cup {Absent}, role : Roles \cup {Absent},
            email : Emails \cup {Absent}]

\* update(updates).eq('id', id) on one column: a key of the payload is
\* written to the row, a missing key leaves the column.
Patch(column, id, value) ==
  IF value = Absent THEN column ELSE [column EXCEPT ![id] = value]

\* AuthProvider.updateProfile: the payload is handed to
\* from('profiles').update(updates).eq('id', user.id) as it is.  On success
\* fetchProfile is called without being awaited and 'Profile Updated' is
\* toasted; an error is toasted and thrown.
updateProfile(updates, ok) ==
  /\ user # Null
  /\ IF ok
     THEN /\ profileName' = Patch(profileName, user, updates.first_name)
          /\ profileRole' = Patch(profileRole, user, updates.role)
          /\ profileEmail' = Patch(profileEmail, user, updates.email)
          /\ fetchProfile(user)
          /\ toasts' = toasts \cup {"Profile Updated"}
          /\ lastCall' = Call("updateProfile", TRUE, FALSE, 1)
     ELSE /\ UNCHANGED <<profileName, profileRole, profileEmail,
                         profileFetches>>
          /\ toasts' = toasts \cup {"Update Error"}
          /\ lastCall' = Call("updateProfile", FALSE, TRUE, 1)
  /\ UNCHANGED <<idpSession, sessionLookup, session, user, userRole, profile,
                 isLoading, path, routeTable, signInPending>>
  /\ UNCHANGED <<formVars,
                 fetchVars,
                 apptVarsButRole, signVars, adminVars, settingsVars>>

\* ProfilePage.handleProfileUpdate: the form's name fields are the payload.
\* The page is inside a guard, so it is on screen once loading is over.
handleProfileUpdate(firstName, ok) ==
  /\ ~isLoading
  /\ updateProfile([first_name |-> firstName, role |-> Absent,
                    email |-> Absent], ok)

ProfileInit ==
  AuthInit /\ idpSession # Null /\ path = "/dashboard" /\ routeTable = "app1"

ProfileNext ==
  \/ getSessionResolves
  \/ \E u \in UserIds, ok \in BOOLEAN : fetchProfileResolves(u, ok)
  \/ \E updates \in Updates, ok \in BOOLEAN : updateProfile(updates, ok)
  \/ \E firstName \in Names, ok \in BOOLEAN :
       handleProfileUpdate(firstName, ok)

\* =========================================================================
\*  SpecSettings: the admin's user management (SettingsPage)
\* =========================================================================
\* The AuthProvider of SpecAuth with the admin's session at the provider,
\* the profiles rows (profileRole, and createdProfile for the one user that
\* handleCreateUser creates), the doctors rows, and the users list of the
\* page.  handleCreateUser updates the profiles row of the identity it has
\* just created, so the row is taken to exist by then, with the role
\* patient that sign-up defaults to.

nonSettingsVars == <<fetchVars,
                     formVars,
                     appointmentRows, clientRole, view, loading,
                     appointments, selectedAppointment, openViewAppointment,
                     doctorId, todayAppointments, upcomingAppointments,
                     lastWrite, lastToast, authVars, profVars, pc, args,
                     profilesTable,
                     doctorsTable, returnedErrors, result, adminVars>>

\* useState<any[]>([]) of SettingsPage, as a map id -> listed role.
NoUsers == [u \in {} |-> Null]

SettingsInit ==
  /\ users = NoUsers
  /\ createdProfile = Null

\* The stored role of a profile, Null when there is no row.
StoredRole(id, roles, created) ==
  IF id = NewUser THEN created ELSE roles[id]

\* from('profiles').select('*'): every profiles row with its role.
ProfilesQuery(roles, created) ==
  [id \in UserIds \cup (IF created = Null THEN {} ELSE {NewUser}) |->
     StoredRole(id, roles, created)]

\* SettingsPage.fetchUsers, run by the effect on [user, userRole] once the
\* role is admin.
fetchUsers(ok) ==
  /\ userRole = "admin"
  /\ users' = IF ok THEN ProfilesQuery(profileRole, createdProfile) ELSE users
  /\ toasts' = IF ok THEN toasts ELSE toasts \cup {"Error fetching users"}
  /\ UNCHANGED <<profileRole, doctorRows, identities, createdProfile>>
  /\ UNCHANGED nonSettingsVars

\* SettingsPage.handleCreateUser: auth.signUp, then
\* from('profiles').update({ role }).eq('id', id), then for a doctor
\* from('doctors').insert(...); each returned error is thrown and toasted.
\* After 'User created' the list is fetched again.
handleCreateUser(role, okAuth, okProfile, okDoctor, okFetch) ==
  /\ SettingsPage(userRole) = "SettingsPage"
  /\ NewUser \notin identities
  /\ LET created == IF okProfile THEN role ELSE "patient"
         inserted == okAuth /\ okProfile /\ role = "doctor" /\ okDoctor
         done == okAuth /\ okProfile /\ (role = "doctor" => okDoctor)
     IN /\ identities' = IF okAuth THEN identities \cup {NewUser}
                         ELSE identities
        /\ createdProfile' = IF okAuth THEN created ELSE createdProfile
        /\ doctorRows' = IF inserted THEN doctorRows \cup {NewUser}
                         ELSE doctorRows
        /\ users' = IF done /\ okFetch THEN ProfilesQuery(profileRole, created)
                    ELSE users
        /\ toasts' = toasts
             \cup (IF done THEN {"User created"} ELSE {"Error creating user"})
             \cup (IF done /\ ~okFetch THEN {"Error fetching users"} ELSE {})
        \* results that are never read do not split the step
        /\ (~okAuth => okProfile)
        /\ (~(okAuth /\ okProfile /\ role = "doctor") => okDoctor)
        /\ (~done => okFetch)
  /\ UNCHANGED profileRole
  /\ UNCHANGED nonSettingsVars

\* SettingsPage.handleUserRoleUpdate: the role selector of a listed user.
\* from('profiles').update({ role: newRole }).eq('id', userId); on success
\* the listed row is changed locally.  Nothing else is written or fetched.
handleUserRoleUpdate(userId, newRole, ok) ==
  /\ SettingsPage(userRole) = "SettingsPage"
  /\ userId \in DOMAIN users
  /\ IF ok
     THEN /\ profileRole' = IF userId = NewUser THEN profileRole
                            ELSE [profileRole EXCEPT ![userId] = newRole]
          /\ createdProfile' = IF userId = NewUser /\ createdProfile # Null
                               THEN newRole ELSE createdProfile
          /\ users' = [users EXCEPT ![userId] = newRole]
          /\ toasts' = toasts \cup {"Role updated"}
     ELSE /\ UNCHANGED <<profileRole, createdProfile, users>>
          /\ toasts' = toasts \cup {"Error updating role"}
  /\ UNCHANGED <<doctorRows, identities>>
  /\ UNCHANGED nonSettingsVars

\* The admin is signed in at the provider and opens /settings.
SettingsAuthInit ==
  AuthInit /\ idpSession = "u3" /\ path = "/dashboard" /\ routeTable = "app1"

SettingsNext ==
  \/ getSessionResolves
  \/ \E u \in UserIds, ok \in BOOLEAN : fetchProfileResolves(u, ok)
  \/ \E ok \in BOOLEAN : fetchUsers(ok)
  \/ \E role \in Roles,
        okAuth, okProfile, okDoctor, okFetch \in BOOLEAN :
       handleCreateUser(role, okAuth, okProfile, okDoctor, okFetch)
  \/ \E userId \in UserIds \cup {NewUser}, newRole \in Roles, ok \in BOOLEAN :
       handleUserRoleUpdate(userId, newRole, ok)

\* =========================================================================
\*  SpecWrites: the write handlers of the views when the store answers with
\*  an error
\* =========================================================================
\* The appointment dialog of a patient and the two admin views, each started
\* in a state in which its handler has something to act on: appointment a1
\* is booked and listed by the patient's AppointmentPage, the doctor is
\* pending and listed by AdminPage and AdminDashboard after successful
\* fetches.

\* The appointments table after the patient u1 booked with the doctor.
BookedRows ==
  [a \in Appts |->
     [status |-> "scheduled", patient_id |-> "u1", doctor_id |-> "u2"]]

\* The state of SpecAppt after ProfileArrives, MountAppointmentPage and
\* handleSubmit of client u1, all successful.
WritesApptInit ==
  /\ appointmentRows = BookedRows
  /\ profileRole = InitProfileRole
  /\ doctorRows = {u \in UserIds : InitProfileRole[u] = "doctor"}
  /\ clientRole = [c \in UserIds |-> IF c = "u1" THEN "patient" ELSE Null]
  /\ view = [c \in UserIds |-> IF c = "u1" THEN "appointments" ELSE "none"]
  /\ loading = [c \in UserIds |-> c # "u1"]
  /\ appointments = [c \in UserIds |->
       IF c = "u1" THEN AppointmentsQuery(BookedRows, "patient", c)
       ELSE EmptyList]
  /\ selectedAppointment = [c \in UserIds |-> NoSelection]
  /\ openViewAppointment = [c \in UserIds |-> FALSE]
  /\ doctorId = [c \in UserIds |-> Null]
  /\ todayAppointments = [c \in UserIds |-> EmptyList]
  /\ upcomingAppointments = [c \in UserIds |-> EmptyList]
  /\ lastWrite = NoWrite
  /\ lastToast = {}

\* The state of SpecAdmin after fetchPendingDoctors and MountAdminDashboard,
\* all successful.
WritesAdminInit ==
  /\ doctorVerified = [u \in UserIds |-> FALSE]
  /\ doctorRejected = [u \in UserIds |-> FALSE]
  /\ profileVerified = [u \in UserIds |-> isVerified(InitProfileRole[u])]
  /\ directoryDoctors = {}
  /\ selectorDoctors = {}
  /\ pendingDoctors = PendingQuery(doctorVerified)
  /\ dashDoctors = AdminDashboard_fetchDoctors(TRUE)
  /\ stats = fetchStats(TRUE)
  /\ dashLoaded = TRUE

WritesNext ==
  \/ \E c \in UserIds, a \in Appts : handleViewAppointment(c, a)
  \/ \E c \in UserIds : CloseViewAppointment(c)
  \/ \E c \in UserIds, s \in Status, ok \in BOOLEAN, okFetch \in BOOLEAN :
       updateAppointmentStatus(c, s, ok, okFetch)
  \/ \E d \in UserIds, isApproved, okDoctor, okProfile, okF \in BOOLEAN :
       AdminPage_handleVerifyDoctor(d, isApproved, okDoctor, okProfile, okF)
  \/ \E d \in UserIds, toVerified, ok \in BOOLEAN :
       AdminDashboard_handleVerifyDoctor(d, toVerified, ok)

\* =========================================================================
\*  SpecForms: the forms that validate their input before a remote call
\* =========================================================================
\* RegisterForm (Auth.tsx), the password form of ProfilePage (Settings.tsx)
\* and the admin-email form of AdminDashboard.  One page is mounted at a
\* time and a form starts from its useState defaults when its page mounts.
\* A text is a sequence of one-character strings where the code looks inside
\* it (length, Number(), includes) and a string where it only tests for
\* emptiness.

nonFormVars == <<fetchVars,
                 apptVars, authVars, profVars, signVars, adminVars,
                 settingsVars, toasts>>

\* `password.length < 6`
MinPasswordLength == 6

\* Passwords typed into a form: empty, too short, two of minimal length.
Passwords ==
  {<< >>, <<"s", "e", "c", "r", "t">>, <<"s", "e", "c", "r", "t", "1">>,
   <<"s", "e", "c", "r", "t", "2">>}

\* The characters of the years-of-experience field and its texts.
Digits == {"5"}
MaxExperienceLen == 2
ExperienceTexts ==
  UNION {[1..n -> Digits \cup {".", "x"}] : n \in 0..MaxExperienceLen}

Qualifications == {"", "MBBS"}
Specialties == {"general", "cardiology"}
AdminEmailTexts == {<< >>, <<"a">>, <<"@">>, <<"a", "@", "b">>}

\* String.prototype.includes for a one-character needle.
includes(s, ch) == \E i \in 1..Len(s) : s[i] = ch

\* A decimal literal of Number(): digits with at most one dot and at least
\* one digit ("5", "5.", ".5", "5.5").
IsDecimalLiteral(s) ==
  /\ \A i \in 1..Len(s) : s[i] \in Digits \cup {"."}
  /\ Cardinality({i \in 1..Len(s) : s[i] = "."}) <= 1
  /\ \E i \in 1..Len(s) : s[i] \in Digits

\* isNaN(Number(s)): Number of the empty text is 0, of a decimal literal its
\* value, of any other text NaN.
NumberIsNaN(s) == s # << >> /\ ~IsDecimalLiteral(s)

RegisterDefaults ==
  [password |-> << >>, confirmPassword |-> << >>, role |-> "patient",
   qualification |-> "", specialty |-> "general", experienceYears |-> << >>]

PasswordDefaults == [newPassword |-> << >>, confirmPassword |-> << >>]

FormsInit ==
  /\ formPage = "auth"
  /\ registerForm = RegisterDefaults
  /\ passwordError = ""
  /\ formError = Null
  /\ passwordData = PasswordDefaults
  /\ newAdminEmail = << >>
  /\ adminEmails = {}
  /\ lastRemote = "none"
  /\ formToast = Null

\* validatePassword: the message passed to setPasswordError; "" is the
\* `return true` branch.
validatePassword(f) ==
  IF f.password # f.confirmPassword THEN "Passwords do not match"
  ELSE IF Len(f.password) < MinPasswordLength
       THEN "Password must be at least 6 characters"
       ELSE ""

\* validateForm without the emptiness test of experienceYears.
validateFormNumberOnly(f) ==
  IF f.role # "doctor" THEN Null
  ELSE IF f.qualification = "" THEN "Please enter your qualification"
  ELSE IF f.specialty = "" THEN "Please select your specialty"
  ELSE IF NumberIsNaN(f.experienceYears)
       THEN "Please enter valid years of experience"
       ELSE Null

\* validateForm: the message passed to setFormError; Null is the
\* `return true` branch.
validateForm(f) ==
  IF f.role # "doctor" THEN Null
  ELSE IF f.qualification = "" THEN "Please enter your qualification"
  ELSE IF f.specialty = "" THEN "Please select your specialty"
  ELSE IF f.experienceYears = << >> \/ NumberIsNaN(f.experienceYears)
       THEN "Please enter valid years of experience"
       ELSE Null

\* A page with a form mounts: its component state is the useState defaults.
OpenForm(p) ==
  /\ formPage # p
  /\ formPage' = p
  /\ registerForm' = RegisterDefaults
  /\ passwordError' = ""
  /\ formError' = Null
  /\ passwordData' = PasswordDefaults
  /\ newAdminEmail' = << >>
  /\ lastRemote' = "none"
  /\ formToast' = Null
  /\ UNCHANGED adminEmails
  /\ UNCHANGED nonFormVars

\* The onChange handlers of RegisterForm; the doctor fields are rendered
\* only while showDoctorFields (role = doctor).
RegisterForm_onChange ==
  /\ formPage = "auth"
  /\ \/ \E v \in Passwords :
          registerForm' = [registerForm EXCEPT !.password = v]
     \/ \E v \in Passwords :
          registerForm' = [registerForm EXCEPT !.confirmPassword = v]
     \/ /\ registerForm.role = "doctor"
        /\ \/ \E v \in Qualifications :
                registerForm' = [registerForm EXCEPT !.qualification = v]
           \/ \E v \in Specialties :
                registerForm' = [registerForm EXCEPT !.specialty = v]
           \/ \E v \in ExperienceTexts :
                registerForm' = [registerForm EXCEPT !.experienceYears = v]
  /\ lastRemote' = "none"
  /\ formToast' = Null
  /\ UNCHANGED <<formPage, passwordError, formError, passwordData,
                 newAdminEmail, adminEmails>>
  /\ UNCHANGED nonFormVars

\* handleRoleChange: leaving the doctor role resets the doctor fields.
handleRoleChange(value) ==
  /\ formPage = "auth"
  /\ registerForm' =
       IF value # "doctor"
       THEN [registerForm EXCEPT !.role = value, !.qualification = "",
               !.specialty = "general", !.experienceYears = << >>]
       ELSE [registerForm EXCEPT !.role = value]
  /\ lastRemote' = "none"
  /\ formToast' = Null
  /\ UNCHANGED <<formPage, passwordError, formError, passwordData,
                 newAdminEmail, adminEmails>>
  /\ UNCHANGED nonFormVars

\* RegisterForm.handleSubmit: `if (!validatePassword() || !validateForm())
\* return;` and signUp otherwise.  validateForm runs only after
\* validatePassword returned true.
RegisterForm_handleSubmit ==
  /\ formPage = "auth"
  /\ passwordError' = validatePassword(registerForm)
  /\ formError' = IF validatePassword(registerForm) # "" THEN formError
                  ELSE validateForm(registerForm)
  /\ lastRemote' = IF /\ validatePassword(registerForm) = ""
                      /\ validateForm(registerForm) = Null
                   THEN "signUp" ELSE "none"
  /\ formToast' = Null
  /\ UNCHANGED <<formPage, registerForm, passwordData, newAdminEmail,
                 adminEmails>>
  /\ UNCHANGED nonFormVars

\* The onChange handler of the password form.
ProfilePage_onChange ==
  /\ formPage = "profile"
  /\ \/ \E v \in Passwords :
          passwordData' = [passwordData EXCEPT !.newPassword = v]
     \/ \E v \in Passwords :
          passwordData' = [passwordData EXCEPT !.confirmPassword = v]
  /\ lastRemote' = "none"
  /\ formToast' = Null
  /\ UNCHANGED <<formPage, registerForm, passwordError, formError,
                 newAdminEmail, adminEmails>>
  /\ UNCHANGED nonFormVars

\* ProfilePage.handlePasswordUpdate: two early returns, then
\* supabase.auth.updateUser; the fields are cleared when it succeeds.
handlePasswordUpdate(ok) ==
  /\ formPage = "profile"
  /\ IF passwordData.newPassword # passwordData.confirmPassword
     THEN /\ passwordError' = "New passwords don't match"
          /\ lastRemote' = "none"
          /\ formToast' = Null
          /\ ok
          /\ UNCHANGED passwordData
     ELSE IF Len(passwordData.newPassword) < MinPasswordLength
     THEN /\ passwordError' = "New password must be at least 6 characters"
          /\ lastRemote' = "none"
          /\ formToast' = Null
          /\ ok
          /\ UNCHANGED passwordData
     ELSE /\ lastRemote' = "updateUser"
          /\ passwordData' = IF ok THEN PasswordDefaults ELSE passwordData
          /\ formToast' = IF ok THEN "Password updated"
                          ELSE "Error updating password"
          /\ UNCHANGED passwordError
  /\ UNCHANGED <<formPage, registerForm, formError, newAdminEmail,
                 adminEmails>>
  /\ UNCHANGED nonFormVars

\* The onChange handler of the admin-email field.
setNewAdminEmail(v) ==
  /\ formPage = "adminDashboard"
  /\ newAdminEmail' = v
  /\ lastRemote' = "none"
  /\ formToast' = Null
  /\ UNCHANGED <<formPage, registerForm, passwordError, formError,
                 passwordData, adminEmails>>
  /\ UNCHANGED nonFormVars

\* AdminDashboard.handleAddAdminEmail: an empty text or one without '@' is
\* answered with a toast; otherwise the row is inserted and, on success, the
\* field cleared.
handleAddAdminEmail(ok) ==
  /\ formPage = "adminDashboard"
  /\ IF newAdminEmail = << >> \/ ~includes(newAdminEmail, "@")
     THEN /\ formToast' = "Invalid email"
          /\ lastRemote' = "none"
          /\ ok
          /\ UNCHANGED <<newAdminEmail, adminEmails>>
     ELSE /\ lastRemote' = "admin_emails.insert"
          /\ IF ok
             THEN /\ adminEmails' = adminEmails \cup {newAdminEmail}
                  /\ newAdminEmail' = << >>
                  /\ formToast' = "Admin email added"
             ELSE /\ formToast' = "Error adding admin email"
                  /\ UNCHANGED <<newAdminEmail, adminEmails>>
  /\ UNCHANGED <<formPage, registerForm, passwordError, formError,
                 passwordData>>
  /\ UNCHANGED nonFormVars

FormsNext ==
  \/ \E p \in {"auth", "profile", "adminDashboard"} : OpenForm(p)
  \/ RegisterForm_onChange
  \/ \E value \in {"patient", "doctor"} : handleRoleChange(value)
  \/ RegisterForm_handleSubmit
  \/ ProfilePage_onChange
  \/ \E ok \in BOOLEAN : handlePasswordUpdate(ok)
  \/ \E v \in AdminEmailTexts : setNewAdminEmail(v)
  \/ \E ok \in BOOLEAN : handleAddAdminEmail(ok)

\* =========================================================================
\*  SpecFetch: the fetches of the views while they are in flight
\* =========================================================================
\* One client whose views mount as soon as ProtectedRoute sees a user, which
\* is before fetchProfile has set userRole.  A fetch builds its query from
\* the values of the render that started it and is a request in flight until
\* its response arrives; responses arrive in any order and none is
\* cancelled.  The store does not change here.

nonFetchVars == <<apptVars, authVars, profVars, signVars, adminVars,
                  settingsVars, formVars>>

\* The users of the store: two patients and two doctors.
FetchRole == [u \in {"p1", "p2", "d1", "d2"} |->
                IF u \in {"p1", "p2"} THEN "patient" ELSE "doctor"]

\* The days selectedDate ranges over, counted from today.
MaxDay == 1

\* The appointments table.
StoredAppointments ==
  {[id |-> "a1", patient_id |-> "p1", doctor_id |-> "d1",
    status |-> "completed", day |-> 0],
   [id |-> "a2", patient_id |-> "p2", doctor_id |-> "d2",
    status |-> "completed", day |-> 0],
   [id |-> "a3", patient_id |-> "p2", doctor_id |-> "d1",
    status |-> "scheduled", day |-> 1]}

\* The medical_records table.
StoredRecords ==
  {[id |-> "m1", patient_id |-> "p1"], [id |-> "m2", patient_id |-> "p2"]}

\* The query fetchAppointments builds when it runs with userRole = role.
AppointmentsSelect(role, uid) ==
  {r.id : r \in {x \in StoredAppointments :
                   /\ role = "doctor" => x.doctor_id = uid
                   /\ role = "patient" => x.patient_id = uid}}

\* The queries fetchMedicalRecords builds when it runs with userRole = role:
\* a doctor's is narrowed to the patients of the doctor's completed
\* appointments, and is not issued when there are none.
RecordsSelect(role, uid) ==
  LET patientIds == {a.patient_id : a \in {x \in StoredAppointments :
                        x.doctor_id = uid /\ x.status = "completed"}}
  IN {r.id : r \in {x \in StoredRecords :
                      /\ role = "patient" => x.patient_id = uid
                      /\ role = "doctor" => x.patient_id \in patientIds}}

\* The query fetchDailyAppointments builds for doctorId did and the date day.
DailySelect(did, day) ==
  {r.id : r \in {x \in StoredAppointments :
                   x.doctor_id = did /\ x.day = day}}

\* A patient or a doctor has signed in and fetchProfile is in flight; no view
\* has mounted.
FetchInit ==
  /\ fUser \in {"p1", "d1"}
  /\ fRole = Null
  /\ mountedViews = {}
  /\ apptFetches = {}
  /\ apptList = {}
  /\ recordFetches = {}
  /\ records = {}
  /\ selectedDate = 0
  /\ dailyFetches = {}
  /\ dailyList = {}

\* AppointmentPage mounts: the effect on [user, userRole] runs
\* fetchAppointments with the userRole of this render.
AppointmentPage_mount ==
  /\ "appointments" \notin mountedViews
  /\ mountedViews' = mountedViews \cup {"appointments"}
  /\ apptFetches' = apptFetches \cup {fRole}
  /\ UNCHANGED <<fUser, fRole, apptList, recordFetches, records,
                 selectedDate, dailyFetches, dailyList, toasts>>
  /\ UNCHANGED nonFetchVars

\* MedicalRecords mounts: the effect on [user] runs fetchMedicalRecords with
\* the userRole of this render.
MedicalRecords_mount ==
  /\ "records" \notin mountedViews
  /\ mountedViews' = mountedViews \cup {"records"}
  /\ recordFetches' = recordFetches \cup {fRole}
  /\ UNCHANGED <<fUser, fRole, apptFetches, apptList, records,
                 selectedDate, dailyFetches, dailyList, toasts>>
  /\ UNCHANGED nonFetchVars

\* DoctorDashboard mounts for a doctor and fetchDoctorId has answered: the
\* effect on [doctorId, selectedDate] runs fetchDailyAppointments.
DoctorDashboard_mount ==
  /\ "doctorDashboard" \notin mountedViews
  /\ FetchRole[fUser] = "doctor"
  /\ mountedViews' = mountedViews \cup {"doctorDashboard"}
  /\ dailyFetches' = dailyFetches \cup {selectedDate}
  /\ UNCHANGED <<fUser, fRole, apptFetches, apptList, recordFetches, records,
                 selectedDate, dailyList, toasts>>
  /\ UNCHANGED nonFetchVars

\* fetchProfile answers: setUserRole.  Of the three views only
\* AppointmentPage has userRole among its effect's dependencies and fetches
\* again.
fetchProfile_resolves ==
  /\ fRole = Null
  /\ fRole' = FetchRole[fUser]
  /\ apptFetches' = IF "appointments" \in mountedViews
                    THEN apptFetches \cup {FetchRole[fUser]}
                    ELSE apptFetches
  /\ UNCHANGED <<fUser, mountedViews, apptList, recordFetches, records,
                 selectedDate, dailyFetches, dailyList, toasts>>
  /\ UNCHANGED nonFetchVars

\* navigateDay: setSelectedDate(addDays(prev, days)); the effect on
\* [doctorId, selectedDate] runs fetchDailyAppointments for the new date.
navigateDay(days) ==
  /\ "doctorDashboard" \in mountedViews
  /\ selectedDate + days \in 0..MaxDay
  /\ selectedDate' = selectedDate + days
  /\ dailyFetches' = dailyFetches \cup {selectedDate + days}
  /\ UNCHANGED <<fUser, fRole, mountedViews, apptFetches, apptList,
                 recordFetches, records, dailyList, toasts>>
  /\ UNCHANGED nonFetchVars

\* The response to a fetchAppointments call arrives: setAppointments(data)
\* or the error toast.
fetchAppointments_resolves(role, ok) ==
  /\ role \in apptFetches
  /\ apptFetches' = apptFetches \ {role}
  /\ apptList' = IF ok THEN AppointmentsSelect(role, fUser) ELSE apptList
  /\ toasts' = IF ok THEN toasts
               ELSE toasts \cup {"Error fetching appointments"}
  /\ UNCHANGED <<fUser, fRole, mountedViews, recordFetches, records,
                 selectedDate, dailyFetches, dailyList>>
  /\ UNCHANGED nonFetchVars

\* The response to a fetchMedicalRecords call arrives: setRecords or the
\* error toast.
fetchMedicalRecords_resolves(role, ok) ==
  /\ role \in recordFetches
  /\ recordFetches' = recordFetches \ {role}
  /\ records' = IF ok THEN RecordsSelect(role, fUser) ELSE records
  /\ toasts' = IF ok THEN toasts
               ELSE toasts \cup {"Error fetching medical records"}
  /\ UNCHANGED <<fUser, fRole, mountedViews, apptFetches, apptList,
                 selectedDate, dailyFetches, dailyList>>
  /\ UNCHANGED nonFetchVars

\* The response to a fetchDailyAppointments call arrives:
\* setTodayAppointments or the error toast.
fetchDailyAppointments_resolves(day, ok) ==
  /\ day \in dailyFetches
  /\ dailyFetches' = dailyFetches \ {day}
  /\ dailyList' = IF ok THEN DailySelect(fUser, day) ELSE dailyList
  /\ toasts' = IF ok THEN toasts
               ELSE toasts \cup {"Error fetching daily appointments"}
  /\ UNCHANGED <<fUser, fRole, mountedViews, apptFetches, apptList,
                 recordFetches, records, selectedDate>>
  /\ UNCHANGED nonFetchVars

FetchNext ==
  \/ AppointmentPage_mount
  \/ MedicalRecords_mount
  \/ DoctorDashboard_mount
  \/ fetchProfile_resolves
  \/ \E days \in {-1, 1} : navigateDay(days)
  \/ \E role \in Roles \cup {Null}, ok \in BOOLEAN :
       fetchAppointments_resolves(role, ok)
  \/ \E role \in Roles \cup {Null}, ok \in BOOLEAN :
       fetchMedicalRecords_resolves(role, ok)
  \/ \E day \in 0..MaxDay, ok \in BOOLEAN : fetchDailyAppointments_resolves(day, ok)

\* =========================================================================
\*                           specifications
\* =========================================================================

AuthIdle == AuthInit /\ idpSession = Null /\ path = "/auth"
                     /\ routeTable = "app1"

ApptSpecInit ==
  ApptInit /\ AuthIdle /\ SignUpInit /\ AdminInit /\ SettingsInit
  /\ FormsInit
  /\ FetchInit /\ fUser = "p1"
  /\ toasts = {}
AuthSpecInit ==
  ApptInit /\ AuthInit /\ SignUpInit /\ AdminInit /\ SettingsInit
  /\ FormsInit
  /\ FetchInit /\ fUser = "p1"
  /\ toasts = {}
SignUpSpecInit ==
  ApptInit /\ AuthIdle /\ SignUpInit /\ AdminInit /\ SettingsInit
  /\ FormsInit
  /\ FetchInit /\ fUser = "p1"
  /\ toasts = {}
ProfileSpecInit ==
  ApptInit /\ ProfileInit /\ SignUpInit /\ AdminInit /\ SettingsInit
  /\ FormsInit
  /\ FetchInit /\ fUser = "p1"
  /\ toasts = {}
SettingsSpecInit ==
  ApptInit /\ SettingsAuthInit /\ SignUpInit /\ AdminInit /\ SettingsInit
  /\ FormsInit
  /\ FetchInit /\ fUser = "p1"
  /\ toasts = {}
WritesSpecInit ==
  WritesApptInit /\ AuthIdle /\ SignUpInit /\ WritesAdminInit /\ SettingsInit
  /\ FormsInit
  /\ FetchInit /\ fUser = "p1"
  /\ toasts = {}
FormsSpecInit ==
  ApptInit /\ AuthIdle /\ SignUpInit /\ AdminInit /\ SettingsInit
  /\ FormsInit
  /\ FetchInit /\ fUser = "p1"
  /\ toasts = {}
FetchSpecInit ==
  ApptInit /\ AuthIdle /\ SignUpInit /\ AdminInit /\ SettingsInit
  /\ FormsInit
  /\ FetchInit
  /\ toasts = {}
AdminSpecInit ==
  ApptInit /\ AuthIdle /\ SignUpInit /\ AdminInit /\ SettingsInit
  /\ FormsInit
  /\ FetchInit /\ fUser = "p1"
  /\ toasts = {}

SpecAppt == ApptSpecInit /\ [][ApptNext]_vars
SpecAuth == AuthSpecInit /\ [][AuthNext]_vars
SpecSignUp == SignUpSpecInit /\ [][SignUpNext]_vars
SpecAdmin == AdminSpecInit /\ [][AdminNext]_vars
SpecProfile == ProfileSpecInit /\ [][ProfileNext]_vars
SpecSettings == SettingsSpecInit /\ [][SettingsNext]_vars
SpecWrites == WritesSpecInit /\ [][WritesNext]_vars
SpecForms == FormsSpecInit /\ [][FormsNext]_vars
SpecFetch == FetchSpecInit /\ [][FetchNext]_vars

\* =========================================================================
\*                               claims
\* =========================================================================

\* C1 (SpecAppt): once the stored status of an appointment is completed or
\* missed, no step changes it, whichever client acts and however old the
\* list or dialog it acts on.
C1_TerminalStatusKept ==
  [][\A a \in Appts :
       appointmentRows[a].status \in {"completed", "missed"}
         => appointmentRows'[a].status = appointmentRows[a].status]_vars

\* C2 (SpecAppt): a row inserted by the booking form starts at scheduled;
\* every in-app update that changes the stored status is scheduled ->
\* completed, scheduled -> cancelled or cancelled -> scheduled, judged against
\* the status stored when the write is applied; no in-app write stores
\* missed.
C2_LegalStatusWrites ==
  /\ lastWrite.kind = "insert" => lastWrite.to = "scheduled"
  /\ (lastWrite.kind = "update" /\ lastWrite.from # lastWrite.to)
       => <<lastWrite.from, lastWrite.to>> \in
            {<<"scheduled", "completed">>, <<"scheduled", "cancelled">>,
             <<"cancelled", "scheduled">>}
  /\ lastWrite.kind \in {"insert", "update"} => lastWrite.to # "missed"

C4_GuardRendersIffPermitted ==
  \A i \in DOMAIN RouteGuards(routeTable, path) :
    LET g == RouteGuards(routeTable, path)[i]
        out == ProtectedRoute(g, Fallback(routeTable))
    IN g.given =>
         /\ (~isLoading /\ user # Null /\ userRole \in Roles)
              => out = (IF userRole \in g.roles THEN "render"
                        ELSE Fallback(routeTable))
         /\ userRole = Null => out # "render"

\* C5 (SpecAuth): for a signed-in user whose stored role is outside the
\* permitted set of the current route, the guards never render; and while
\* the role is unknown a guarded route shows the loading placeholder.
C5_NotPermittedNeverRendered ==
  (/\ user # Null
   /\ \E i \in DOMAIN RouteGuards(routeTable, path) :
        LET g == RouteGuards(routeTable, path)[i]
        IN g.given /\ profileRole[user] \notin g.roles)
    => /\ GuardOutput # "render"
       /\ userRole = Null => GuardOutput = "loading"

\* C6 (SpecAuth): for a signed-in user whose stored role is admin, in the
\* window where the session is resolved and the profile fetch is in flight,
\* the admin view routed at the current path shows its content (no
\* unauthorized or access-denied notice) and AdminDashboard does not
\* redirect.
C6_NullRoleNotDenial ==
  (/\ user # Null
   /\ profileRole[user] = "admin"
   /\ ~isLoading
   /\ userRole = Null
   /\ user \in profileFetches
   /\ RouteElement(routeTable, path) \in {"AdminPage", "SettingsPage"})
    => /\ Screen = RouteElement(routeTable, path)
       /\ AdminDashboard(userRole) = "AdminDashboard"

\* C7 (SpecAuth): in either route table a signed-in user with a resolved
\* role is rendered /doctors only as patient or admin, /patients only as
\* doctor or admin, /admin and /settings only as admin, and is rendered
\* /dashboard and /appointments with any role.
C7_RouteTablesFollowMapping ==
  (user # Null /\ userRole # Null /\ RouteGuards(routeTable, path) # <<>>)
    => /\ GuardOutput = "render" =>
            /\ path = "/doctors" => userRole \in {"patient", "admin"}
            /\ path = "/patients" => userRole \in {"doctor", "admin"}
            /\ path \in {"/admin", "/settings"} => userRole = "admin"
       /\ (~isLoading /\ path \in {"/dashboard", "/appointments"})
            => Screen = RouteElement(routeTable, path)

\* C8 (SpecAuth): userRole and profile are non-null only while user is
\* non-null, also after sign-out or expiry with a profile fetch in flight.
C8_RoleOnlyWithUser ==
  user = Null => (userRole = Null /\ profile = NoProfile)

\* C9 (SpecSignUp): when signUp has finished after the identity was created
\* and no write returned an error, role patient has a Profile row with
\* is_verified true and no Doctor row, and role doctor has a Profile row
\* with is_verified false and a Doctor row with is_verified false, whatever
\* the optional doctor arguments were.
C9_SignUpRows ==
  (pc = "done" /\ NewUser \in identities /\ returnedErrors = {}) =>
    /\ Role(args) = "patient" =>
         /\ \E r \in profilesTable : r.id = NewUser /\ r.is_verified
         /\ \A d \in doctorsTable : d.id # NewUser
    /\ Role(args) = "doctor" =>
         /\ \E r \in profilesTable : r.id = NewUser /\ ~r.is_verified
         /\ \E d \in doctorsTable : d.id = NewUser /\ ~d.is_verified

\* C10 (SpecSignUp): when the Profile write or the Doctor-row write returned
\* an error, signUp ends with the promise rejected, an error toast and no
\* "Account created" toast, and the identity is still there.
C10_WriteErrorSurfaced ==
  (pc = "done" /\ returnedErrors # {}) =>
    /\ result = "rejected"
    /\ "Sign Up Error" \in toasts
    /\ "Account created" \notin toasts
    /\ NewUser \in identities

\* C11 (SpecAdmin): a doctor whose doctors row is not verified is in no list
\* of doctors that a fetch installs in a view shown to patients: every step
\* that changes the doctor directory or the doctor selector of the booking
\* form installs verified doctors only.
C11_UnverifiedNeverListed ==
  [][/\ directoryDoctors' # directoryDoctors =>
          \A d \in directoryDoctors' : doctorVerified'[d]
     /\ selectorDoctors' # selectorDoctors =>
          \A d \in selectorDoctors' : doctorVerified'[d]]_vars

\* C18 (SpecAdmin): a step in which AdminDashboard.handleVerifyDoctor(d, true)
\* succeeds for a doctor d stored and listed as unverified leaves d in the
\* result of the directory query and leaves the pendingDoctors counter of
\* the admin view exactly one less than it was before the call.
C18_VerifyDecrementsPending ==
  [][\A d \in doctorRows :
        (/\ d \in DOMAIN dashDoctors /\ d \in DOMAIN dashDoctors'
         /\ ~doctorVerified[d] /\ doctorVerified'[d]
         /\ ~dashDoctors[d] /\ dashDoctors'[d])
        => /\ d \in {x \in doctorRows : doctorVerified'[x]}
           /\ stats' = stats - 1]_vars

\* C13 (SpecAuth): when a signOut call has returned, session, user, profile
\* and userRole are all null, whether or not the remote sign-out succeeded,
\* and a failed remote sign-out has been reported with a notification.
C13_SignOutClearsState ==
  [][(lastCall' # lastCall /\ lastCall'.op = "signOut")
        => /\ session' = Null /\ user' = Null
           /\ profile' = NoProfile /\ userRole' = Null
           /\ (~lastCall'.ok => "Sign Out Error" \in toasts')]_vars

\* C15 (SpecAuth): the step in which a signIn call fails changes none of
\* session, user, profile and userRole (null on the login form stays null)
\* and does not create a session at the provider, toasts the sign-in
\* error, rejects to the login form, which therefore stays where it is, and
\* has made exactly one remote attempt.
C15_FailedSignIn ==
  [][(signInPending # Null /\ signInPending' = Null /\ ~lastCall'.ok)
        => /\ lastCall'.op = "signIn"
           /\ UNCHANGED <<session, user, profile, userRole, idpSession>>
           /\ "Sign In Error" \in toasts'
           /\ lastCall'.thrown
           /\ path' = path
           /\ lastCall'.attempts = 1]_vars

\* C15 witness: a sign-in has just failed on the login form of a signed-out
\* browser, and the error is on screen.
C15_Witness ==
  /\ lastCall.op = "signIn" /\ ~lastCall.ok /\ lastCall.thrown
  /\ signInPending = Null
  /\ session = Null /\ user = Null /\ profile = NoProfile /\ userRole = Null
  /\ sessionLookup = "done"
  /\ path = "/auth"
  /\ "Sign In Error" \in toasts

\* C16 (SpecAuth): the session manager is Authenticating (isLoading is
\* true) while the session lookup of the initial load is unanswered and
\* while a sign-in attempt is in flight.
C16_AuthenticatingEntered ==
  /\ sessionLookup = "pending" => isLoading
  /\ signInPending # Null => isLoading

\* C12 (SpecProfile): a call of updateProfile, whatever its payload, leaves
\* the stored role and email of every profile as they were, and the first
\* name of every profile but the caller's.
C12_UpdateProfileFrame ==
  [][(lastCall' # lastCall /\ lastCall'.op = "updateProfile")
        => /\ profileRole' = profileRole
           /\ profileEmail' = profileEmail
           /\ \A u \in UserIds \ {user} :
                 profileName'[u] = profileName[u]]_vars

\* C14 (SpecProfile): once updateProfile has succeeded and no fetchProfile
\* request is outstanding any more, the cached profile is the stored
\* profiles row of the user; and a failed updateProfile changes neither the
\* cached profile nor userRole and throws.
C14_CacheFollowsStore ==
  /\ []((lastCall.op = "updateProfile" /\ lastCall.ok
          /\ profileFetches = {})
         => profile = ProfileRow(user, profileRole, profileName,
                                 profileEmail))
  /\ [][(lastCall' # lastCall /\ lastCall'.op = "updateProfile"
          /\ ~lastCall'.ok)
         => (UNCHANGED <<profile, userRole>> /\ lastCall'.thrown)]_vars

\* C17 (SpecSettings): a step that changes the stored role of the signed-in
\* user's own profile leaves the session manager's userRole equal to the
\* stored role, so that the views rendered after it use the new role.
C17_OwnRoleChangePropagates ==
  [][(user # Null /\ profileRole'[user] # profileRole[user])
        => userRole' = profileRole'[user]]_vars

\* C19 (SpecSettings): every doctors row references an existing profiles
\* row whose role is doctor.
C19_DoctorRowHasDoctorProfile ==
  \A d \in doctorRows :
    StoredRole(d, profileRole, createdProfile) = "doctor"

\* C20 (SpecAppt): an appointment the booking form has just inserted has a
\* patient_id that references a profile whose role is patient: the
\* submitter's own id when a patient submits, and never the submitter's own
\* id when an admin submits.
C20_InsertedPatientIsPatient ==
  lastWrite.kind = "insert" =>
    LET row == appointmentRows[lastWrite.id]
    IN /\ row.patient_id \in UserIds
       /\ profileRole[row.patient_id] = "patient"
       /\ clientRole[lastWrite.by] = "patient" => row.patient_id = lastWrite.by
       /\ clientRole[lastWrite.by] = "admin" => row.patient_id # lastWrite.by

C30_VerificationFlagsAgree ==
  \A d \in doctorRows : doctorVerified[d] = profileVerified[d]

\* C25 (SpecAuth): whenever a user is signed in, a profile is cached and no
\* profile fetch is outstanding, the cached profile is that user's: a late
\* response to the profile fetch of an earlier session does not end up as
\* the profile or userRole of the current one.
C25_ProfileBelongsToUser ==
  (user # Null /\ profile # NoProfile /\ profileFetches = {}) =>
    (profile.id = user /\ userRole = profile.role)

\* C21 (SpecAppt): an update to completed leaves the stored status
\* completed, also when the status was completed already; and while the
\* stored status of an appointment is completed, neither the appointment
\* dialog nor the doctor dashboard of any client offers Mark as completed
\* or Cancel for it.
C21_CompletedOffersNoAction ==
  /\ (lastWrite.kind = "update" /\ lastWrite.to = "completed")
        => appointmentRows[lastWrite.id].status = "completed"
  /\ \A c \in UserIds, a \in Appts :
        appointmentRows[a].status = "completed" =>
          /\ (view[c] = "appointments" /\ openViewAppointment[c]
               /\ selectedAppointment[c].id = a)
                => StatusActions(selectedAppointment[c], clientRole[c])
                     \cap {"completed", "cancelled"} = {}
          /\ (view[c] = "doctorDashboard" /\ ~loading[c])
                => DashboardActions(c, a) = {}

\* C23 (SpecWrites): a step in which the remote write of
\* updateAppointmentStatus, of AdminDashboard.handleVerifyDoctor or of
\* AdminPage.handleVerifyDoctor returns an error shows the handler's error
\* notification and leaves the local state of the view (the appointment
\* list and the open dialog; the doctors list and the pendingDoctors
\* counter; the pending-doctor list) exactly as it was.
C23_FailedWriteKeepsView ==
  [][/\ (\E c \in UserIds, s \in Status :
            updateAppointmentStatus(c, s, FALSE, TRUE))
          => /\ "Error updating appointment" \in lastToast'
             /\ UNCHANGED <<appointments, selectedAppointment,
                            openViewAppointment, loading>>
     /\ (\E d \in UserIds, toVerified \in BOOLEAN :
            AdminDashboard_handleVerifyDoctor(d, toVerified, FALSE))
          => /\ "Error updating verification status" \in toasts'
             /\ UNCHANGED <<dashDoctors, stats>>
     /\ (\E d \in UserIds, isApproved, okDoctor, okProfile \in BOOLEAN :
            /\ ~(okDoctor /\ (isApproved => okProfile))
            /\ AdminPage_handleVerifyDoctor(d, isApproved, okDoctor,
                                            okProfile, TRUE))
          => /\ "Error updating doctor status" \in toasts'
             /\ UNCHANGED pendingDoctors]_vars

\* C23 witness: both admin handlers have failed, the doctor is still listed
\* as pending in both views, and the update of the open appointment dialog
\* has just failed.
C23_Witness ==
  /\ {"Error updating verification status", "Error updating doctor status"}
       \subseteq toasts
  /\ pendingDoctors # {}
  /\ \E d \in DOMAIN dashDoctors : ~dashDoctors[d]
  /\ "Error updating appointment" \in lastToast
  /\ \E c \in UserIds :
       openViewAppointment[c] /\ selectedAppointment[c] # NoSelection

\* C24 (SpecAppt): a mounted view whose remote calls have all resolved, with
\* a result or with an error, is not in its loading skeleton; the calls of a
\* mount resolve within its step, so no mounted Appointments view and no
\* DoctorDashboard mounted by a user who has a doctors row has its loading
\* flag set.
C24_LoadingCleared ==
  \A c \in UserIds :
    /\ view[c] = "appointments" => ~loading[c]
    /\ (view[c] = "doctorDashboard" /\ c \in doctorRows) => ~loading[c]

\* C22 (SpecForms): a form whose input fails validation issues no remote
\* call.  signUp is called only when the two passwords are equal and at
\* least 6 characters long and, for role doctor, qualification and specialty
\* are present and years of experience is present and numeric; updateUser is
\* called only when the new passwords are equal and at least 6 characters
\* long; a row is inserted into admin_emails only for a text containing '@'.
C22_InvalidInputIssuesNoCall ==
  [][/\ lastRemote' = "signUp" =>
          /\ registerForm.password = registerForm.confirmPassword
          /\ Len(registerForm.password) >= 6
          /\ registerForm.role = "doctor" =>
               /\ registerForm.qualification # ""
               /\ registerForm.specialty # ""
               /\ registerForm.experienceYears # << >>
               /\ IsDecimalLiteral(registerForm.experienceYears)
     /\ lastRemote' = "updateUser" =>
          /\ passwordData.newPassword = passwordData.confirmPassword
          /\ Len(passwordData.newPassword) >= 6
     /\ lastRemote' = "admin_emails.insert" =>
          includes(newAdminEmail, "@")]_vars

\* C22 witness: after an admin email was inserted, a registration as doctor
\* with equal passwords of 6 characters and the experience text "5x" has
\* just been rejected inline without a call.
C22_Witness ==
  /\ formPage = "auth"
  /\ adminEmails # {}
  /\ registerForm.role = "doctor"
  /\ registerForm.password = registerForm.confirmPassword
  /\ Len(registerForm.password) = 6
  /\ registerForm.experienceYears = <<"5", "x">>
  /\ formError = "Please enter valid years of experience"
  /\ passwordError = ""
  /\ lastRemote = "none"

\* C26 (SpecFetch): once the profile fetch and every fetchAppointments call
\* have been answered, none of them with an error, the list of the
\* Appointments view of a patient holds only appointments with
\* patient_id = user.id and that of a doctor only appointments with
\* doctor_id = user.id, in whatever order the answers arrived.
C26_AppointmentListFiltered ==
  ("appointments" \in mountedViews /\ fRole # Null /\ apptFetches = {}
      /\ "Error fetching appointments" \notin toasts) =>
    \A r \in StoredAppointments :
      r.id \in apptList =>
        /\ fRole = "patient" => r.patient_id = fUser
        /\ fRole = "doctor" => r.doctor_id = fUser

\* C27 (SpecFetch): once the profile fetch and every fetchMedicalRecords call
\* have been answered, none of them with an error, the records list of a
\* patient holds only records with patient_id = user.id and that of a doctor
\* only records of patients who have a completed appointment with that
\* doctor, also when the view mounted before userRole was set.
C27_RecordsListFiltered ==
  ("records" \in mountedViews /\ fRole # Null /\ recordFetches = {}
      /\ "Error fetching medical records" \notin toasts) =>
    \A r \in StoredRecords :
      r.id \in records =>
        /\ fRole = "patient" => r.patient_id = fUser
        /\ fRole = "doctor" =>
             \E a \in StoredAppointments :
               /\ a.doctor_id = fUser
               /\ a.status = "completed"
               /\ a.patient_id = r.patient_id

\* C28 (SpecFetch): once every fetchDailyAppointments call has been answered,
\* none of them with an error, the daily appointments DoctorDashboard
\* displays are the doctor's appointments of the selected date, in whatever
\* order the answers arrived.
C28_DailyListOfSelectedDate ==
  ("doctorDashboard" \in mountedViews /\ dailyFetches = {}
      /\ "Error fetching daily appointments" \notin toasts) =>
    dailyList = {r.id : r \in {x \in StoredAppointments :
                   x.doctor_id = fUser /\ x.day = selectedDate}}

====
